---- MODULE Spec2Model ----
(***************************************************************************)
(* Substance-to-Redshift material importer (src/main.py).                  *)
(*                                                                         *)
(* Strings are sequences of one-character strings, so that the file-name   *)
(* parsing of load_materials_data (endswith, splitext, removeprefix,       *)
(* replace, rsplit, capitalize) is computed character by character.        *)
(* Paths follow posixpath (join with "/", normcase leaves a path as is).   *)
(*                                                                         *)
(* Spec         the control window: open folder, check boxes, import, on   *)
(*              a host whose calls succeed.                                *)
(* SpecScan     load_materials_data alone, on generated file names.        *)
(* SpecHostFail Spec plus a build in which a node creation raises.         *)
(***************************************************************************)
EXTENDS Naturals, Sequences, FiniteSets

VARIABLES
    fs,                  \* the file system: folder path -> os.listdir order of its entries
    loaded_mats,         \* MatImporter.loaded_mats, in dict insertion order
    texture_type_filter, \* MatImporter.texture_type_filter
    kind_boxes,          \* value of each texture-kind iconTextCheckBox
    inspected_folder,    \* ControlWindow._inspected_folder
    materials_shelf,     \* materials that own a toggle/button row on the material shelf
    texture_shelf,       \* material and textures shown on the texture shelf
    calls                \* host (maya.cmds) calls and prints of the handler that ran last

vars == <<fs, loaded_mats, texture_type_filter, kind_boxes, inspected_folder,
          materials_shelf, texture_shelf, calls>>

(***************************************************************************)
(* Bounds of the model.                                                    *)
(***************************************************************************)
MaxFiles == 2
MaxChunks == 2

(***************************************************************************)
(* Characters and strings.                                                 *)
(***************************************************************************)
LowerLetters == <<"a", "b", "c", "d", "e", "f", "g", "h", "i", "j", "k", "l", "m",
                  "n", "o", "p", "q", "r", "s", "t", "u", "v", "w", "x", "y", "z">>
UpperLetters == <<"A", "B", "C", "D", "E", "F", "G", "H", "I", "J", "K", "L", "M",
                  "N", "O", "P", "Q", "R", "S", "T", "U", "V", "W", "X", "Y", "Z">>

Range(s) == {s[i] : i \in DOMAIN s}

IndexOf(c, letters) == CHOOSE i \in DOMAIN letters : letters[i] = c

upper(c) == IF c \in Range(LowerLetters) THEN UpperLetters[IndexOf(c, LowerLetters)] ELSE c

lower(c) == IF c \in Range(UpperLetters) THEN LowerLetters[IndexOf(c, UpperLetters)] ELSE c

\* A capitalize that would leave the rest of the string as it is.
capitalize_keep_rest(s) == [i \in DOMAIN s |-> IF i = 1 THEN upper(s[i]) ELSE s[i]]
\* str.capitalize: first character upper-cased, every other character lower-cased.
capitalize(s) == [i \in DOMAIN s |-> IF i = 1 THEN upper(s[i]) ELSE lower(s[i])]

startswith(s, p) == Len(p) <= Len(s) /\ SubSeq(s, 1, Len(p)) = p

\* An endswith that would ignore letter case.
endswith_nocase(s, p) ==
    /\ Len(p) <= Len(s)
    /\ [i \in 1..Len(p) |-> lower(s[Len(s) - Len(p) + i])] = p
\* str.endswith
endswith(s, p) == Len(p) <= Len(s) /\ SubSeq(s, Len(s) - Len(p) + 1, Len(s)) = p

removeprefix(s, p) == IF startswith(s, p) THEN SubSeq(s, Len(p) + 1, Len(s)) ELSE s

\* str.replace(old, ""): every non-overlapping occurrence, left to right.
RECURSIVE replace_with_empty(_, _)
replace_with_empty(s, old) ==
    IF s = <<>> THEN <<>>
    ELSE IF startswith(s, old) THEN replace_with_empty(SubSeq(s, Len(old) + 1, Len(s)), old)
    ELSE <<Head(s)>> \o replace_with_empty(Tail(s), old)

\* posixpath.splitext(p)[0] of a name without directory separators: cut at the
\* last dot unless only dots precede it.
splitext_root(p) ==
    LET dots == {i \in DOMAIN p : p[i] = "."}
        last == CHOOSE i \in dots : \A j \in dots : j <= i
    IN  IF dots # {} /\ (\E j \in 1..(last - 1) : p[j] # ".")
        THEN SubSeq(p, 1, last - 1)
        ELSE p

\* str.rsplit(sep, 1): a list of two parts cut at the last sep, or of s alone.
rsplit1(s, sep) ==
    LET at == {i \in DOMAIN s : s[i] = sep}
        last == CHOOSE i \in at : \A j \in at : j <= i
    IN  IF at = {} THEN <<s>>
        ELSE <<SubSeq(s, 1, last - 1), SubSeq(s, last + 1, Len(s))>>

\* posixpath.join(folder, file) for a file name that does not start with "/".
join(folder, file) ==
    IF folder = <<>> \/ folder[Len(folder)] = "/" THEN folder \o file
    ELSE folder \o <<"/">> \o file

\* posixpath.normcase returns the path unchanged.
normcase(p) == p

(***************************************************************************)
(* TexType and the constants of MatImporter.                               *)
(***************************************************************************)
TexType == {"BaseColor", "Metallic", "Normal", "Roughness", "Emissive", "Height"}

TexTypeName ==
    [k \in TexType |->
        CASE k = "BaseColor" -> <<"B", "a", "s", "e", "C", "o", "l", "o", "r">>
          [] k = "Metallic"  -> <<"M", "e", "t", "a", "l", "l", "i", "c">>
          [] k = "Normal"    -> <<"N", "o", "r", "m", "a", "l">>
          [] k = "Roughness" -> <<"R", "o", "u", "g", "h", "n", "e", "s", "s">>
          [] k = "Emissive"  -> <<"E", "m", "i", "s", "s", "i", "v", "e">>
          [] k = "Height"    -> <<"H", "e", "i", "g", "h", "t">>]

TexTypeValue ==
    [k \in TexType |->
        CASE k = "BaseColor" -> "diffuse_color"
          [] k = "Metallic"  -> "refl_metalness"
          [] k = "Normal"    -> "bump_input"
          [] k = "Roughness" -> "refl_roughness"
          [] k = "Emissive"  -> "emissive_not_implemented"
          [] k = "Height"    -> "height_not_implemented"]

KeyError == "KeyError"

\* TexType[tex_name]: the member of that exact name, or KeyError.
TexTypeByName(tex_name) ==
    IF \E k \in TexType : TexTypeName[k] = tex_name
    THEN CHOOSE k \in TexType : TexTypeName[k] = tex_name
    ELSE KeyError

PREFIX == <<"M", "e", "s", "h", "_">>
SUFFIX == <<"_", "m", "a", "t">>
EXTENSIONS == {<<".", "p", "n", "g">>, <<".", "b", "m", "p">>,
               <<".", "j", "p", "e", "g">>, <<".", "j", "p", "g">>}

(***************************************************************************)
(* Directories.  Two folders can be chosen in the dialog.                  *)
(***************************************************************************)
FolderA == <<"/", "a">>
FolderB == <<"/", "b">>
Folders == {FolderA, FolderB}

\* Listings without repetition, of at most n entries of pool.
Listings(pool, n) ==
    {s \in UNION {[1..k -> pool] : k \in 0..n} : \A i, j \in DOMAIN s : i # j => s[i] # s[j]}

\* Entries the first folder may hold.
FilePool ==
    { <<"M", "e", "s", "h", "_", "R", "o", "c", "k", "_", "m", "a", "t", "_", "B", "a", "s", "e", "C", "o", "l", "o", "r", ".", "p", "n", "g">>,
      <<"M", "e", "s", "h", "_", "r", "o", "c", "k", "_", "m", "a", "t", "_", "M", "e", "t", "a", "l", "l", "i", "c", ".", "p", "n", "g">>,
      <<"M", "e", "s", "h", "_", "w", "o", "o", "d", "_", "m", "a", "t", "_", "E", "m", "i", "s", "s", "i", "v", "e", ".", "j", "p", "g">> }

\* The entries of the second folder, in listing order.
OtherFolderListing ==
    << <<"M", "e", "s", "h", "_", "R", "o", "c", "k", "_", "m", "a", "t", "_", "F", "o", "o", ".", "p", "n", "g">>,
       <<"M", "e", "s", "h", "_", "r", "O", "C", "K", "_", "m", "a", "t", "_", "F", "o", "o", ".", "j", "p", "g">>,
       <<"f", "o", "o", ".", "p", "n", "g">>,
       <<"M", "e", "s", "h", "_", "w", "o", "o", "d", "_", "m", "a", "t", "_", "N", "o", "r", "m", "a", "l", ".", "b", "m", "p">> >>

\* File names Mesh_{M}_mat_{T}{ext}: M a concatenation of at most MaxChunks
\* chunks, T a texture token, ext an ending.
MatChunks == {<<"r">>, <<"W">>, <<"_">>, <<"_", "m", "a", "t">>}

RECURSIVE Concatenations(_, _)
Concatenations(chunks, n) ==
    IF n = 0 THEN {<<>>}
    ELSE Concatenations(chunks, n - 1)
         \cup {m \o c : m \in Concatenations(chunks, n - 1), c \in chunks}

MatTokens == Concatenations(MatChunks, MaxChunks)

TexTokens == { <<"B", "a", "s", "e", "C", "o", "l", "o", "r">>,
               <<"F", "o", "o">>, <<"a", "_", "b">>, <<"m", "a", "t", "t", "e">> }

Endings == EXTENSIONS \cup {<<".", "P", "N", "G">>, <<".", "t", "x", "t">>}

SchemaName(M, T, ext) == PREFIX \o M \o SUFFIX \o <<"_">> \o T \o ext

\* Entries listed next to a schema name: one without an underscore to split
\* on, one whose material and texture are those of Mesh_r_mat_BaseColor.
NoUnderscoreFile == <<"f", "o", "o", ".", "p", "n", "g">>
SameKeyFile == <<"M", "e", "s", "h", "_", "R", "_", "m", "a", "t", "_", "B", "a", "s", "e", "C", "o", "l", "o", "r", ".", "b", "m", "p">>
Neighbours == {NoUnderscoreFile, SameKeyFile}

ScanPool == {SchemaName(M, T, e) : M \in MatTokens, T \in TexTokens, e \in Endings}

KnownFiles == FilePool \cup Range(OtherFolderListing) \cup ScanPool \cup Neighbours

(***************************************************************************)
(* The catalog: a sequence (dict insertion order) of materials             *)
(* [name, texs, inc], texs a sequence of textures [name, file, inc].       *)
(***************************************************************************)
Names(seq) == {seq[i].name : i \in DOMAIN seq}

Find(seq, name) == CHOOSE i \in DOMAIN seq : seq[i].name = name

\* file.endswith(MatImporter._EXTENSIONS)
has_extension(file) == \E e \in EXTENSIONS : endswith(file, e)

\* The list that line 55 unpacks into mat_name, tex_name.
split_name(file) ==
    rsplit1(replace_with_empty(removeprefix(splitext_root(file), PREFIX), SUFFIX), "_")

\* Lines 54-55 for every entry a directory of the model can hold (the parse of
\* a name does not depend on the catalog, so it is computed once per name).
parsed ==
    [file \in KnownFiles |->
        [accepted |-> has_extension(file),
         parts    |-> split_name(file),
         key      |-> capitalize(split_name(file)[1])]]

\* A plain assignment texs[tex_name] = [file, True], which would overwrite.
tex_assign(texs, tex_name, file) ==
    IF tex_name \in Names(texs)
    THEN [i \in DOMAIN texs |->
            IF texs[i].name = tex_name THEN [name |-> tex_name, file |-> file, inc |-> TRUE]
            ELSE texs[i]]
    ELSE Append(texs, [name |-> tex_name, file |-> file, inc |-> TRUE])
\* dict.setdefault on the texture dictionary of one material.
tex_setdefault(texs, tex_name, file) ==
    IF tex_name \in Names(texs) THEN texs
    ELSE Append(texs, [name |-> tex_name, file |-> file, inc |-> TRUE])

\* dict.setdefault on loaded_mats.
mat_setdefault(mats, mat_name) ==
    IF mat_name \in Names(mats) THEN mats
    ELSE Append(mats, [name |-> mat_name, texs |-> <<>>, inc |-> TRUE])

\* Lines 56-58 for one file parsed into mat_name.capitalize() and tex_name.
add_file(mats, key, tex_name, file_path) ==
    LET mats1 == mat_setdefault(mats, key)
        m     == Find(mats1, key)
    IN  [mats1 EXCEPT ![m].texs = tex_setdefault(@, tex_name, file_path)]

\* The loop of load_materials_data over listing[i..]: the catalog it leaves and
\* whether the unpacking of line 55 raised ValueError, which ends the loop.
RECURSIVE scan_from(_, _, _, _)
scan_from(mats, folder_path, listing, i) ==
    IF i > Len(listing) THEN [mats |-> mats, raised |-> FALSE]
    ELSE LET p == parsed[listing[i]]
         IN  IF ~p.accepted THEN scan_from(mats, folder_path, listing, i + 1)
             ELSE IF Len(p.parts) # 2 THEN [mats |-> mats, raised |-> TRUE]
             ELSE scan_from(add_file(mats, p.key, p.parts[2],
                                     normcase(join(folder_path, listing[i]))),
                            folder_path, listing, i + 1)

load_materials_data(mats, folder_path, listing) == scan_from(mats, folder_path, listing, 1)

(***************************************************************************)
(* Host calls.  One record per call: op is the maya.cmds function (or      *)
(* print), mat the material being built, kind the TexType member, tok a    *)
(* texture token, file a path, arg the node type, attribute or answer.     *)
(***************************************************************************)
NoStr == <<>>

Call(op, mat, kind, tok, file, arg) ==
    [op |-> op, mat |-> mat, kind |-> kind, tok |-> tok, file |-> file, arg |-> arg]

FILE_NODE_SIMPLE_BINDS ==
    <<"coverage", "wrapU", "mirrorU", "mirrorV", "vertexUvOne", "vertexCameraOne",
      "rotateFrame", "offset", "repeatUV", "wrapV", "noiseUV", "stagger", "vertexUvTwo",
      "translateFrame", "vertexUvThree", "rotateUV">>
FILE_NODE_UNIQUE_BINDS == <<"outUV", "outUvFilterSize">>

\* MatImporter._create_texture_node for the texture of kind `kind` of material `mat`.
create_texture_node(mat, kind, file_name, isRaw) ==
       <<Call("shadingNode", mat, kind, NoStr, NoStr, "file"),
         Call("shadingNode", mat, kind, NoStr, NoStr, "place2dTexture")>>
    \o [i \in DOMAIN FILE_NODE_SIMPLE_BINDS |->
            Call("connectAttr", mat, kind, NoStr, NoStr, FILE_NODE_SIMPLE_BINDS[i])]
    \o [i \in DOMAIN FILE_NODE_UNIQUE_BINDS |->
            Call("connectAttr", mat, kind, NoStr, NoStr, FILE_NODE_UNIQUE_BINDS[i])]
    \o <<Call("setAttr", mat, kind, NoStr, file_name, "fileTextureName")>>
    \o (IF isRaw THEN <<Call("setAttr", mat, kind, NoStr, NoStr, "colorSpace=Raw")>> ELSE <<>>)

\* The comparison of line 93 turned around.
is_raw_inverted(kind) == kind = "BaseColor"
\* isRaw argument of line 93.
is_raw(kind) == kind # "BaseColor"

\* The test of line 90.
filtered_out(kind, filter) == kind \notin filter

\* Lines 82-101 for one texture entry.
import_texture(mat, tex, filter) ==
    LET kind == TexTypeByName(tex.name)
    IN  IF ~tex.inc THEN <<>>
        ELSE IF kind = KeyError
             THEN <<Call("print", mat, "", tex.name, tex.file, "not supported")>>
        ELSE IF filtered_out(kind, filter) THEN <<>>
        ELSE    create_texture_node(mat, kind, tex.file, is_raw(kind))
             \o <<Call("defaultNavigation", mat, kind, NoStr, NoStr, TexTypeValue[kind])>>
             \o (IF kind = "Normal"
                 THEN <<Call("ls", mat, kind, NoStr, NoStr, "sl"),
                        Call("setAttr", mat, kind, NoStr, NoStr, "inputType=1")>>
                 ELSE IF kind = "Metallic"
                 THEN <<Call("setAttr", mat, kind, NoStr, NoStr, "refl_fresnel_mode=2")>>
                 ELSE <<>>)

RECURSIVE import_textures(_, _, _, _)
import_textures(mat, texs, filter, i) ==
    IF i > Len(texs) THEN <<>>
    ELSE import_texture(mat, texs[i], filter) \o import_textures(mat, texs, filter, i + 1)

\* MatImporter.import_loaded_material: the calls it issues, in order.
import_loaded_material(m, filter) ==
       <<Call("shadingNode", m.name, "", NoStr, NoStr, "RedshiftMaterial"),
         Call("sets", m.name, "", NoStr, NoStr, "rsMaterial"),
         Call("connectAttr", m.name, "", NoStr, NoStr, "outColor")>>
    \o import_textures(m.name, m.texs, filter, 1)

\* A loop without the test of line 105.
skip_material_never(m) == FALSE
\* The test of line 105.
skip_material(m) == ~m.inc

\* MatImporter.import_all_loaded_materials over mats[i..].
RECURSIVE import_all_from(_, _, _)
import_all_from(mats, filter, i) ==
    IF i > Len(mats) THEN <<>>
    ELSE (IF skip_material(mats[i]) THEN <<>> ELSE import_loaded_material(mats[i], filter))
         \o import_all_from(mats, filter, i + 1)

import_all_loaded_materials(mats, filter) == import_all_from(mats, filter, 1)

(***************************************************************************)
(* The control window.                                                     *)
(***************************************************************************)
NoShelf == [drawn |-> FALSE, mat |-> NoStr, items |-> {}]

\* The check boxes, had lines 188-189 not disabled two of them.
EnabledKindBoxes_all == TexType
\* The kind check boxes the user can press (lines 186-189).
EnabledKindBoxes == TexType \ {"Emissive", "Height"}

\* MatImporter.__init__: the filter the tool starts with.
InitialFilter == TexType \ {"Emissive", "Height"}

\* A toggle whose removal would empty the filter.
toggle_others(filter, category, value) ==
    IF value THEN filter \cup {category} ELSE {}
\* toggle(category, value) of _draw_texture_import_options_box; set.remove of a
\* missing member raises KeyError and leaves the set as it was.
toggle(filter, category, value) ==
    IF value THEN filter \cup {category} ELSE filter \ {category}

\* ControlWindow.__init__ and open_window on a fresh MatImporter.
InitWindow ==
    /\ loaded_mats = <<>>
    /\ texture_type_filter = InitialFilter
    /\ kind_boxes = [k \in TexType |-> TRUE]
    /\ inspected_folder = NoStr
    /\ materials_shelf = [drawn |-> FALSE, items |-> {}]
    /\ texture_shelf = NoShelf
    /\ calls = <<>>

\* _draw_materials_shelf_layout: the shelves are destroyed and the material
\* shelf rebuilt with one row per material of the catalog.
DrawMaterialsShelf(mats) ==
    /\ materials_shelf' = [drawn |-> TRUE, items |-> Names(mats)]
    /\ texture_shelf' = NoShelf

\* _open_folder, the dialog answered with a folder.  A ValueError out of
\* load_materials_data leaves the handler before the shelf is redrawn.
OpenFolder(folder) ==
    LET r == load_materials_data(loaded_mats, folder, fs[folder])
    IN  /\ inspected_folder' = folder
        /\ loaded_mats' = r.mats
        /\ IF r.raised
           THEN UNCHANGED <<materials_shelf, texture_shelf>>
           ELSE DrawMaterialsShelf(r.mats)
        /\ calls' = <<Call("fileDialog2", NoStr, "", NoStr, folder, "")>>
        /\ UNCHANGED <<fs, texture_type_filter, kind_boxes>>

\* _open_folder, the dialog dismissed.
CancelFolder ==
    /\ DrawMaterialsShelf(loaded_mats)
    /\ calls' = <<Call("fileDialog2", NoStr, "", NoStr, NoStr, "")>>
    /\ UNCHANGED <<fs, loaded_mats, texture_type_filter, kind_boxes, inspected_folder>>

\* A texture-kind check box pressed: its value flips and toggle runs.
ToggleKind(category) ==
    /\ category \in EnabledKindBoxes
    /\ kind_boxes' = [kind_boxes EXCEPT ![category] = ~@]
    /\ texture_type_filter' = toggle(texture_type_filter, category, ~kind_boxes[category])
    /\ calls' = <<>>
    /\ UNCHANGED <<fs, loaded_mats, inspected_folder, materials_shelf, texture_shelf>>

\* on_material_toggle_switched: the check box of a shelf row flips the flag.
ToggleMaterial(name) ==
    /\ name \in materials_shelf.items
    /\ loaded_mats' = [loaded_mats EXCEPT ![Find(loaded_mats, name)].inc = ~@]
    /\ calls' = <<>>
    /\ UNCHANGED <<fs, texture_type_filter, kind_boxes, inspected_folder,
                   materials_shelf, texture_shelf>>

\* on_material_button_pressed: the texture shelf of that material is drawn.
SelectMaterial(name) ==
    /\ name \in materials_shelf.items
    /\ texture_shelf' = [drawn |-> TRUE, mat |-> name,
                         items |-> Names(loaded_mats[Find(loaded_mats, name)].texs)]
    /\ calls' = <<>>
    /\ UNCHANGED <<fs, loaded_mats, texture_type_filter, kind_boxes, inspected_folder,
                   materials_shelf>>

\* on_texture_selected: the check box of a shown texture flips its flag.
ToggleTexture(tex_name) ==
    /\ texture_shelf.drawn
    /\ tex_name \in texture_shelf.items
    /\ LET m == Find(loaded_mats, texture_shelf.mat)
           t == Find(loaded_mats[m].texs, tex_name)
       IN  loaded_mats' = [loaded_mats EXCEPT ![m].texs[t].inc = ~@]
    /\ calls' = <<>>
    /\ UNCHANGED <<fs, texture_type_filter, kind_boxes, inspected_folder,
                   materials_shelf, texture_shelf>>

\* _import_selected, the confirmation answered Yes.
ImportSelected ==
    /\ loaded_mats # <<>>
    /\ calls' = <<Call("confirmDialog", NoStr, "", NoStr, NoStr, "Yes")>>
                \o import_all_loaded_materials(loaded_mats, texture_type_filter)
    /\ UNCHANGED <<fs, loaded_mats, texture_type_filter, kind_boxes, inspected_folder,
                   materials_shelf, texture_shelf>>

\* _import_selected, the confirmation answered No or dismissed.
DeclineImport ==
    /\ loaded_mats # <<>>
    /\ calls' = <<Call("confirmDialog", NoStr, "", NoStr, NoStr, "No")>>
    /\ UNCHANGED <<fs, loaded_mats, texture_type_filter, kind_boxes, inspected_folder,
                   materials_shelf, texture_shelf>>

Init ==
    /\ \E listing \in Listings(FilePool, MaxFiles) :
          fs = [f \in Folders |-> IF f = FolderA THEN listing ELSE OtherFolderListing]
    /\ InitWindow

Next ==
    \/ \E folder \in Folders : OpenFolder(folder)
    \/ CancelFolder
    \/ \E k \in EnabledKindBoxes : ToggleKind(k)
    \/ \E name \in materials_shelf.items : ToggleMaterial(name)
    \/ \E name \in materials_shelf.items : SelectMaterial(name)
    \/ \E tex_name \in texture_shelf.items : ToggleTexture(tex_name)
    \/ ImportSelected
    \/ DeclineImport

Spec == Init /\ [][Next]_vars

(***************************************************************************)
(* Scanning alone: folder A holds one schema name, possibly with a         *)
(* neighbour listed before or after it; folder B is empty.                 *)
(***************************************************************************)
InitScan ==
    /\ \E f \in ScanPool :
          \E listing \in {<<f>>} \cup {<<n, f>> : n \in Neighbours \ {f}}
                                 \cup {<<f, n>> : n \in Neighbours \ {f}} :
              fs = [d \in Folders |-> IF d = FolderA THEN listing ELSE <<>>]
    /\ InitWindow

NextScan ==
    \/ \E folder \in Folders : OpenFolder(folder)
    \/ CancelFolder

SpecScan == InitScan /\ [][NextScan]_vars

(***************************************************************************)
(* A host that may deny a node creation: the shadingNode or sets call      *)
(* raises, and nothing in import_all_loaded_materials, import_loaded_      *)
(* material or _import_selected catches it.                                *)
(***************************************************************************)
ImportSelectedHostFails ==
    /\ loaded_mats # <<>>
    /\ LET trace == import_all_loaded_materials(loaded_mats, texture_type_filter)
       IN  \E k \in DOMAIN trace :
              /\ trace[k].op \in {"shadingNode", "sets"}
              /\ calls' = <<Call("confirmDialog", NoStr, "", NoStr, NoStr, "Yes")>>
                          \o SubSeq(trace, 1, k)
                          \o <<Call("raise", trace[k].mat, trace[k].kind, NoStr, NoStr,
                                    "RuntimeError")>>
    /\ UNCHANGED <<fs, loaded_mats, texture_type_filter, kind_boxes, inspected_folder,
                   materials_shelf, texture_shelf>>

NextHostFail ==
    \/ Next
    \/ ImportSelectedHostFails

SpecHostFail == Init /\ [][NextHostFail]_vars

(***************************************************************************)
(* Vocabulary of the properties.                                           *)
(***************************************************************************)
\* The handler that ran last was _import_selected answered Yes.
IsBuildTrace(tr) == tr # <<>> /\ tr[1].op = "confirmDialog" /\ tr[1].arg = "Yes"

\* The handler that ran last was _open_folder answered with folder.
IsScanTrace(tr, folder) == tr # <<>> /\ tr[1].op = "fileDialog2" /\ tr[1].file = folder

CountCalls(tr, op, mat, kind, arg) ==
    Cardinality({i \in DOMAIN tr : /\ tr[i].op = op
                                   /\ tr[i].mat = mat
                                   /\ tr[i].kind = kind
                                   /\ tr[i].arg = arg})

CountPrints(tr, mat, tok, file) ==
    Cardinality({i \in DOMAIN tr : /\ tr[i].op = "print"
                                   /\ tr[i].mat = mat
                                   /\ tr[i].tok = tok
                                   /\ tr[i].file = file})

\* Sampling nodes created for a material, whatever the kind.
CountFileNodes(tr, mat) ==
    Cardinality({i \in DOMAIN tr : /\ tr[i].op = "shadingNode"
                                   /\ tr[i].mat = mat
                                   /\ tr[i].arg = "file"})

ShaderBuilt(tr, mat) ==
    /\ CountCalls(tr, "shadingNode", mat, "", "RedshiftMaterial") = 1
    /\ CountCalls(tr, "sets", mat, "", "rsMaterial") = 1

Unimplemented == {"Emissive", "Height"}
Togglable == {"BaseColor", "Metallic", "Normal", "Roughness"}

\* <<material, texture token, path>> of every texture entry of a catalog.
Content(mats) ==
    UNION {{<<mats[m].name, mats[m].texs[x].name, mats[m].texs[x].file>> :
                x \in DOMAIN mats[m].texs} : m \in DOMAIN mats}

EndsIn(s, e) == Len(e) <= Len(s) /\ \A i \in 1..Len(e) : s[Len(s) - Len(e) + i] = e[i]
EndsInAnyCase(s, e) ==
    Len(e) <= Len(s) /\ \A i \in 1..Len(e) : lower(s[Len(s) - Len(e) + i]) = e[i]

AcceptedEnding(file) == \E e \in EXTENSIONS : EndsIn(file, e)
AcceptedEndingAnyCase(file) == \E e \in EXTENSIONS : EndsInAnyCase(file, e)

PathIn(folder, file) == folder \o <<"/">> \o file

\* The catalog holds material key, included, with texture tex at path, included.
HasTexture(mats, key, tex, path) ==
    \E m \in DOMAIN mats :
        /\ mats[m].name = key
        /\ mats[m].inc
        /\ \E x \in DOMAIN mats[m].texs :
              mats[m].texs[x] = [name |-> tex, file |-> path, inc |-> TRUE]

\* This step is the scan of folder A into the empty catalog.
ScanAFromEmpty == loaded_mats = <<>> /\ IsScanTrace(calls', FolderA)

\* Every accepted entry listed before position i parses into two parts, and
\* none of them has the material key and texture token of entry i.
EarlierEntriesHarmless(listing, i) ==
    \A j \in 1..(i - 1) :
        parsed[listing[j]].accepted =>
            /\ Len(parsed[listing[j]].parts) = 2
            /\ <<parsed[listing[j]].key, parsed[listing[j]].parts[2]>>
                  # <<parsed[listing[i]].key, parsed[listing[i]].parts[2]>>

(***************************************************************************)
(* C1.                                                                     *)
(***************************************************************************)
\* C1: every open-folder action replaces the catalog by the scan of the chosen
\* folder: afterwards the catalog holds exactly the materials and textures
\* parsed from that folder.
C1_OpenFolderReplaces ==
    [][\A folder \in Folders :
          IsScanTrace(calls', folder) =>
              LET alone == load_materials_data(<<>>, folder, fs[folder]).mats
              IN  /\ Names(loaded_mats') = Names(alone)
                  /\ Content(loaded_mats') = Content(alone)]_vars

(***************************************************************************)
(* C2.                                                                     *)
(***************************************************************************)
\* C2: no node-creation call (shadingNode, sets) of a build is issued for a
\* material whose include flag is false.
C2_ExcludedMaterialNotBuilt ==
    \A i \in DOMAIN calls :
        calls[i].op \in {"shadingNode", "sets"} =>
            \E m \in DOMAIN loaded_mats :
                loaded_mats[m].name = calls[i].mat /\ loaded_mats[m].inc

\* A build that created the shader of one material while another material,
\* with textures, was toggled off.
C2_Witness ==
    /\ IsBuildTrace(calls)
    /\ \E m1, m2 \in DOMAIN loaded_mats :
          /\ ~loaded_mats[m1].inc
          /\ loaded_mats[m1].texs # <<>>
          /\ loaded_mats[m2].inc
          /\ ShaderBuilt(calls, loaded_mats[m2].name)

(***************************************************************************)
(* C3.                                                                     *)
(***************************************************************************)
\* C3: the filter never holds Emissive or Height, and no call of a build is
\* issued for a texture of kind Emissive or Height.
C3_NeverEmissiveOrHeight ==
    /\ texture_type_filter \cap Unimplemented = {}
    /\ \A i \in DOMAIN calls : calls[i].kind \notin Unimplemented

\* A build, after kind toggles, of an included material that holds an included
\* Emissive or Height texture.
C3_Witness ==
    /\ IsBuildTrace(calls)
    /\ texture_type_filter # Togglable
    /\ \E m \in DOMAIN loaded_mats :
          /\ loaded_mats[m].inc
          /\ ShaderBuilt(calls, loaded_mats[m].name)
          /\ \E x \in DOMAIN loaded_mats[m].texs :
                /\ loaded_mats[m].texs[x].inc
                /\ TexTypeByName(loaded_mats[m].texs[x].name) \in Unimplemented

(***************************************************************************)
(* C4.                                                                     *)
(***************************************************************************)
\* C4: for each kind K of BaseColor, Metallic, Normal, Roughness: the membership
\* of K in the filter changes exactly when K's check box is pressed, and then to
\* the new value of the box (out, or back in); and a build wires a texture of
\* kind K of an included material exactly when the texture is included and K is
\* in the filter.
C4_FilterToggle ==
    [][\A K \in Togglable :
          /\ ((K \in texture_type_filter') # (K \in texture_type_filter))
                <=> (kind_boxes'[K] # kind_boxes[K])
          /\ (kind_boxes'[K] # kind_boxes[K]) =>
                ((K \in texture_type_filter') <=> kind_boxes'[K])
          /\ IsBuildTrace(calls') =>
                \A m \in DOMAIN loaded_mats :
                    \A x \in DOMAIN loaded_mats[m].texs :
                        (loaded_mats[m].inc /\ loaded_mats[m].texs[x].name = TexTypeName[K]) =>
                            CountCalls(calls', "defaultNavigation", loaded_mats[m].name, K,
                                       TexTypeValue[K])
                            = IF loaded_mats[m].texs[x].inc /\ K \in texture_type_filter
                              THEN 1 ELSE 0]_vars

\* A build with BaseColor toggled out and Metallic in, of a material holding
\* both textures included: Metallic is wired, BaseColor is not.
C4_Witness ==
    /\ IsBuildTrace(calls)
    /\ "BaseColor" \notin texture_type_filter
    /\ "Metallic" \in texture_type_filter
    /\ \E m \in DOMAIN loaded_mats :
          /\ loaded_mats[m].inc
          /\ \E x, y \in DOMAIN loaded_mats[m].texs :
                /\ loaded_mats[m].texs[x].name = TexTypeName["BaseColor"]
                /\ loaded_mats[m].texs[x].inc
                /\ loaded_mats[m].texs[y].name = TexTypeName["Metallic"]
                /\ loaded_mats[m].texs[y].inc
          /\ CountCalls(calls, "defaultNavigation", loaded_mats[m].name, "BaseColor",
                        "diffuse_color") = 0
          /\ CountCalls(calls, "defaultNavigation", loaded_mats[m].name, "Metallic",
                        "refl_metalness") = 1

(***************************************************************************)
(* C5.                                                                     *)
(***************************************************************************)
\* C5: scanning again the folder that was scanned last leaves the catalog as it
\* was: no entry added, no path and no include flag overwritten.
C5_RescanKeepsCatalog ==
    [][\A folder \in Folders :
          (inspected_folder = folder /\ IsScanTrace(calls', folder)) =>
              loaded_mats' = loaded_mats]_vars

\* A folder was just scanned while the catalog holds a texture of that folder
\* whose include flag is off: the folder had been scanned before, the texture
\* was toggled, and the new scan kept the flag.
C5_Witness ==
    \E folder \in Folders :
        /\ IsScanTrace(calls, folder)
        /\ \E m \in DOMAIN loaded_mats :
              \E x \in DOMAIN loaded_mats[m].texs :
                  /\ ~loaded_mats[m].texs[x].inc
                  /\ \E i \in DOMAIN fs[folder] :
                        loaded_mats[m].texs[x].file = PathIn(folder, fs[folder][i])

(***************************************************************************)
(* C6.                                                                     *)
(***************************************************************************)
\* C6: a file with an accepted extension and no underscore to split on is
\* skipped and the scan continues: every entry of the folder that has an
\* accepted extension and parses into material and texture is in the catalog
\* after the scan, whether listed before or after that file.
C6_BadFileSkipped ==
    [][ScanAFromEmpty =>
          \A i \in DOMAIN fs[FolderA] :
              LET f == fs[FolderA][i]
              IN  (AcceptedEnding(f) /\ Len(parsed[f].parts) = 2) =>
                      \E m \in DOMAIN loaded_mats' :
                          /\ loaded_mats'[m].name = parsed[f].key
                          /\ parsed[f].parts[2] \in Names(loaded_mats'[m].texs)]_vars

(***************************************************************************)
(* C7.                                                                     *)
(***************************************************************************)
\* C7: when a host call fails while one included material is built, every
\* included material later in the catalog's order still gets its shader node
\* and shading group.
C7_LaterMaterialsStillBuilt ==
    \A i \in DOMAIN calls :
        calls[i].op = "raise" =>
            \A m \in DOMAIN loaded_mats :
                (loaded_mats[m].inc /\ m > Find(loaded_mats, calls[i].mat)) =>
                    ShaderBuilt(calls, loaded_mats[m].name)

(***************************************************************************)
(* C8.                                                                     *)
(***************************************************************************)
FirstUpperRestUnchanged(s) == [i \in DOMAIN s |-> IF i = 1 THEN upper(s[i]) ELSE s[i]]
FirstUpperRestLower(s) == [i \in DOMAIN s |-> IF i = 1 THEN upper(s[i]) ELSE lower(s[i])]

Contains(s, sub) == \E i \in 1..Len(s) : startswith(SubSeq(s, i, Len(s)), sub)

\* M and T can be read back from Mesh_{M}_mat_{T}: no "_mat" inside M, no
\* underscore in T, T not starting with "mat".
WellFormed(M, T) ==
    /\ ~Contains(M, SUFFIX)
    /\ "_" \notin Range(T)
    /\ ~startswith(T, <<"m", "a", "t">>)

\* The ways to read a name as Mesh_{M}_mat_{T}{ext} with an accepted extension.
schema_readings ==
    [file \in KnownFiles |->
        {r \in MatTokens \X TexTokens \X EXTENSIONS : SchemaName(r[1], r[2], r[3]) = file}]

\* After this scan of A into the empty catalog, every well-formed schema name
\* of A, not preceded by a failing or same-key entry, is in the catalog under
\* Cap(M), texture T, its own path, both flags true.
ScanYieldsKey(Cap(_)) ==
    ScanAFromEmpty =>
        \A i \in DOMAIN fs[FolderA] :
            \A r \in schema_readings[fs[FolderA][i]] :
                (WellFormed(r[1], r[2]) /\ EarlierEntriesHarmless(fs[FolderA], i)) =>
                    HasTexture(loaded_mats', Cap(r[1]), r[2],
                               PathIn(FolderA, fs[FolderA][i]))

\* C8 as stated: the material key is M with its first letter upper-cased and
\* the rest unchanged.
C8_KeyRestUnchanged == [][ScanYieldsKey(FirstUpperRestUnchanged)]_vars

\* C8 amended: the material key is M with its first letter upper-cased and
\* every other letter lower-cased; the texture entry is keyed T, at the path of
\* the file in the folder, material and texture included.
C8_KeyRestLowered == [][ScanYieldsKey(FirstUpperRestLower)]_vars

\* Folder A, holding Mesh_rW_mat_BaseColor.png, was scanned: the catalog holds
\* material Rw with texture BaseColor at /a/Mesh_rW_mat_BaseColor.png.
C8_Witness ==
    /\ IsScanTrace(calls, FolderA)
    /\ \E i \in DOMAIN fs[FolderA] :
          /\ fs[FolderA][i] = SchemaName(<<"r", "W">>, TexTypeName["BaseColor"],
                                         <<".", "p", "n", "g">>)
          /\ HasTexture(loaded_mats, <<"R", "w">>, TexTypeName["BaseColor"],
                        PathIn(FolderA, fs[FolderA][i]))

(***************************************************************************)
(* C9.                                                                     *)
(***************************************************************************)
\* C9 as stated: an entry whose name ends in png, bmp, jpeg or jpg in any
\* letter case is parsed and added to the catalog.
C9_AnyCaseAccepted ==
    [][ScanAFromEmpty =>
          \A i \in DOMAIN fs[FolderA] :
              LET f == fs[FolderA][i]
              IN  (/\ AcceptedEndingAnyCase(f)
                   /\ Len(parsed[f].parts) = 2
                   /\ EarlierEntriesHarmless(fs[FolderA], i)) =>
                      HasTexture(loaded_mats', parsed[f].key, parsed[f].parts[2],
                                 PathIn(FolderA, f))]_vars

\* C9 amended: the extension test is case-sensitive.  The scan of a folder is
\* the scan of its entries that end in lower-case .png, .bmp, .jpeg or .jpg:
\* every other entry, upper-case extensions included, is ignored, and every
\* path of the catalog is that of an entry with such an ending.
C9_LowerCaseOnly ==
    [][ScanAFromEmpty =>
          /\ loaded_mats' =
                load_materials_data(<<>>, FolderA,
                                    SelectSeq(fs[FolderA], AcceptedEnding)).mats
          /\ \A c \in Content(loaded_mats') :
                \E i \in DOMAIN fs[FolderA] :
                    AcceptedEnding(fs[FolderA][i]) /\ c[3] = PathIn(FolderA, fs[FolderA][i])]_vars

\* Folder A was scanned; it holds an entry ending in .PNG that would parse,
\* next to an entry that was added: the .PNG entry is at no path of the catalog.
C9_Witness ==
    /\ IsScanTrace(calls, FolderA)
    /\ loaded_mats # <<>>
    /\ \E i \in DOMAIN fs[FolderA] :
          /\ EndsIn(fs[FolderA][i], <<".", "P", "N", "G">>)
          /\ Len(parsed[fs[FolderA][i]].parts) = 2
          /\ \A c \in Content(loaded_mats) : c[3] # PathIn(FolderA, fs[FolderA][i])

(***************************************************************************)
(* C10.                                                                    *)
(***************************************************************************)
\* C10: a build of an included material treats each of its textures in one of
\* four ways.  Include flag false: no node, no diagnostic.  Token that names no
\* TexType member: one diagnostic, no node.  Kind outside the filter: no node,
\* no diagnostic.  Otherwise: one sampling node and one coordinate node, colour
\* space set to Raw unless the kind is BaseColor, one connection to the slot of
\* the kind.  The material gets no other sampling node.
C10_TexturePartition ==
    IsBuildTrace(calls) =>
        \A m \in DOMAIN loaded_mats :
            loaded_mats[m].inc =>
                LET mat   == loaded_mats[m].name
                    texs  == loaded_mats[m].texs
                    Kind(x) == TexTypeByName(texs[x].name)
                    Wired(x) == /\ texs[x].inc
                                /\ Kind(x) # KeyError
                                /\ Kind(x) \in texture_type_filter
                IN  /\ CountFileNodes(calls, mat)
                          = Cardinality({x \in DOMAIN texs : Wired(x)})
                    /\ \A x \in DOMAIN texs :
                          /\ CountPrints(calls, mat, texs[x].name, texs[x].file)
                                = IF texs[x].inc /\ Kind(x) = KeyError THEN 1 ELSE 0
                          /\ Kind(x) # KeyError =>
                                LET n == IF Wired(x) THEN 1 ELSE 0
                                IN  /\ CountCalls(calls, "shadingNode", mat, Kind(x), "file") = n
                                    /\ CountCalls(calls, "shadingNode", mat, Kind(x),
                                                  "place2dTexture") = n
                                    /\ CountCalls(calls, "defaultNavigation", mat, Kind(x),
                                                  TexTypeValue[Kind(x)]) = n
                                    /\ CountCalls(calls, "setAttr", mat, Kind(x),
                                                  "colorSpace=Raw")
                                          = IF Wired(x) /\ Kind(x) # "BaseColor" THEN 1 ELSE 0

\* The build of Rock with BaseColor, Metallic and Foo, all included and both
\* kinds in the filter: two sampling nodes and one diagnostic.
C10_Witness ==
    /\ IsBuildTrace(calls)
    /\ {"BaseColor", "Metallic"} \subseteq texture_type_filter
    /\ \E m \in DOMAIN loaded_mats :
          /\ loaded_mats[m].name = <<"R", "o", "c", "k">>
          /\ loaded_mats[m].inc
          /\ Names(loaded_mats[m].texs)
                = {TexTypeName["BaseColor"], TexTypeName["Metallic"], <<"F", "o", "o">>}
          /\ \A x \in DOMAIN loaded_mats[m].texs : loaded_mats[m].texs[x].inc
          /\ CountFileNodes(calls, loaded_mats[m].name) = 2
          /\ Cardinality({i \in DOMAIN calls : calls[i].op = "print"}) = 1
          /\ CountCalls(calls, "setAttr", loaded_mats[m].name, "Metallic", "colorSpace=Raw") = 1
          /\ CountCalls(calls, "setAttr", loaded_mats[m].name, "BaseColor", "colorSpace=Raw") = 0

====
